---- MODULE Spec2Model ----
(***************************************************************************)
(* A model of src/lib/dataref.ts: the size-threshold offload policy        *)
(* copyLargeBlobsToRemote, the single-value offload base64ToDataRef and    *)
(* the blob conversion dataRefToBlob, together with the DataRef data model *)
(* of dataref-types.ts.                                                    *)
(*                                                                         *)
(* JavaScript values are records [t, v]: t is the runtime type and v the   *)
(* content, a run-length encoded sequence of numbers (UTF-16 code units of *)
(* a string, the bytes of a Uint8Array).  A plain object has the one shape *)
(* {a: <string>}; its v is the string of its property a.  DataRef objects  *)
(* live in a heap indexed by address, because the code passes them by      *)
(* reference and writes their hash field in place.                         *)
(***************************************************************************)
EXTENDS Integers, Sequences, FiniteSets, TLC

VARIABLES
    op,        \* which exported function the client called: "none" before
    status,    \* the promise the call returned: idle, pending, returned, rejected
    heap,      \* address -> DataRef object {value, type, hash}
    inputs,    \* copyLargeBlobsToRemote: [defined, keys] of the inputs argument
    result,    \* copyLargeBlobsToRemote: the local `result` map, name -> address
    entry,     \* copyLargeBlobsToRemote: per name, the state of its async callback
    args,      \* base64ToDataRef / dataRefToBlob: the arguments of the call
    calls,     \* every invocation of the injected upload function, in order
    fetches,   \* every invocation of fetchBlobFromUrl, in order
    join,      \* copyLargeBlobsToRemote: the promise of Promise.all
    returned,  \* what the promise resolved with
    error      \* what the promise rejected with

vars == <<op, status, heap, inputs, result, entry, args, calls, fetches, join,
          returned, error>>

----------------------------------------------------------------------------
(* Bounds of the model.                                                    *)

\* number of names an inputs mapping may hold
NumNames == 2
\* number of DataRef objects the injected upload function may hand out
NumRemote == 2

Names == 1 .. NumNames
RemoteIds == 1 .. NumRemote

----------------------------------------------------------------------------
(* JavaScript values.                                                      *)

Rep(c, n) == [i \in 1 .. n |-> c]

RECURSIVE Flatten(_)
Flatten(ss) ==
    IF Len(ss) = 0 THEN <<>>
    ELSE IF Len(ss) = 1 THEN ss[1]
    ELSE LET h == Len(ss) \div 2
         IN  Flatten(SubSeq(ss, 1, h)) \o Flatten(SubSeq(ss, h + 1, Len(ss)))

\* contents are kept run-length encoded: a sequence of runs [c, n], n times the
\* number c, no two neighbours with the same c
Expand(runs) == Flatten([i \in 1 .. Len(runs) |-> Rep(runs[i].c, runs[i].n)])

JoinRuns(l, r) ==
    IF l = <<>> THEN r
    ELSE IF r = <<>> THEN l
    ELSE IF l[Len(l)].c = r[1].c
    THEN SubSeq(l, 1, Len(l) - 1)
         \o <<[c |-> r[1].c, n |-> l[Len(l)].n + r[1].n]>>
         \o SubSeq(r, 2, Len(r))
    ELSE l \o r

RECURSIVE Compress(_)
Compress(s) ==
    IF Len(s) = 0 THEN <<>>
    ELSE IF Len(s) = 1 THEN <<[c |-> s[1], n |-> 1]>>
    ELSE LET h == Len(s) \div 2
             l == Compress(SubSeq(s, 1, h))
             r == Compress(SubSeq(s, h + 1, Len(s)))
         IN  JoinRuns(l, r)

RECURSIVE RunLen(_)
RunLen(runs) == IF runs = <<>> THEN 0 ELSE runs[1].n + RunLen(Tail(runs))

Str(s) == [t |-> "string", v |-> Compress(s)]
Obj(s) == [t |-> "object", v |-> Compress(s)]
Bytes(b) == [t |-> "uint8array", v |-> Compress(b)]
Undefined == [t |-> "undefined", v |-> <<>>]
\* the outcome of an expression that throws
Thrown(why) == [t |-> "throw", v |-> why]

\* String(x) for the values of the model; a plain object prints as [object Object]
ToStringJs(x) ==
    IF x.t = "object"
    THEN <<91, 111, 98, 106, 101, 99, 116, 32, 79, 98, 106, 101, 99, 116, 93>>
    ELSE IF x.t = "undefined"
    THEN <<117, 110, 100, 101, 102, 105, 110, 101, 100>>
    ELSE Expand(x.v)

\* x is truthy: the empty string and undefined are not, an object is
Truthy(x) == \/ x.t = "object"
             \/ x.t = "uint8array"
             \/ x.t = "string" /\ x.v # <<>>

\* x.length of a string
Length(x) == RunLen(x.v)

\* x.length > n, with x.length undefined (and the comparison false) for a plain object
LengthExceeds(x, n) == x.t = "string" /\ Length(x) > n

\* JSON's quoting of a string: " and \ are escaped
JsonQuote(s) ==
    <<34>> \o Flatten([i \in 1 .. Len(s) |->
                 IF s[i] = 34 \/ s[i] = 92 THEN <<92, s[i]>> ELSE <<s[i]>>]) \o <<34>>

\* JSON.stringify(x): a string is quoted, the object {a: s} gives {"a":"s"}
JsonStringify(x) ==
    IF x.t = "object"
    THEN <<123, 34, 97, 34, 58>> \o JsonQuote(Expand(x.v)) \o <<125>>
    ELSE JsonQuote(Expand(x.v))

\* the UTF-8 bytes of one code unit (below U+0800)
Utf8Char(c) == IF c < 128 THEN <<c>> ELSE <<192 + (c \div 64), 128 + (c % 64)>>

\* Unibabel.utf8ToBuffer(x)
Utf8ToBuffer(x) ==
    LET s == ToStringJs(x)
    IN  Bytes(Flatten([i \in 1 .. Len(s) |-> Utf8Char(s[i])]))

\* the 6-bit value of a character of the base64 alphabet, -1 for any other
Sextet(c) ==
    IF c >= 65 /\ c <= 90 THEN c - 65
    ELSE IF c >= 97 /\ c <= 122 THEN c - 71
    ELSE IF c >= 48 /\ c <= 57 THEN c + 4
    ELSE IF c = 43 THEN 62
    ELSE IF c = 47 THEN 63
    ELSE -1

\* s without its trailing padding, as atob's forgiving decode strips it
StripPadding(s) ==
    IF Len(s) % 4 = 0 /\ Len(s) >= 2 /\ s[Len(s)] = 61
    THEN IF s[Len(s) - 1] = 61 THEN SubSeq(s, 1, Len(s) - 2)
                               ELSE SubSeq(s, 1, Len(s) - 1)
    ELSE s

\* the bytes of the base64 characters s: four sextets give three bytes, a last
\* group of three gives two and of two gives one
DecodeSextets(s) ==
    LET n == Len(s)
        at(i) == IF i <= n THEN Sextet(s[i]) ELSE 0
        byte(j) == LET g == 4 * ((j - 1) \div 3)
                       r == (j - 1) % 3
                   IN  IF r = 0 THEN at(g + 1) * 4 + at(g + 2) \div 16
                       ELSE IF r = 1 THEN (at(g + 2) % 16) * 16 + at(g + 3) \div 4
                       ELSE (at(g + 3) % 4) * 64 + at(g + 4)
    IN  [j \in 1 .. ((n * 6) \div 8) |-> byte(j)]

\* Unibabel.base64ToBuffer(x): atob, then the bytes of the binary string
Base64ToBuffer(x) ==
    LET s == StripPadding(ToStringJs(x))
    IN  IF Len(s) % 4 = 1 \/ \E i \in 1 .. Len(s) : Sextet(s[i]) < 0
        THEN Thrown("InvalidCharacterError")
        ELSE Bytes(DecodeSextets(s))

\* objectHash.sha1(x): a digest of the value's type and content, taken to be
\* collision free
ObjectHashSha1(x) == [t |-> "sha1", v |-> <<x>>]

----------------------------------------------------------------------------
(* The DataRef model (dataref-types.ts).                                   *)

\* the values of the enum DataRefType
DataRefType == {"base64", "url", "utf8", "json", "hash"}
\* the type field of a DataRef that has none
NoType == "undefined"
DataRefTypeDefault == "base64"

DataRef(value, type) == [value |-> value, type |-> type, hash |-> Undefined]
Unallocated == DataRef(Undefined, NoType)

ENV_VAR_DATA_ITEM_LENGTH_MAX == 200
\* the default of options.maxLengthUnmodified
DefaultMaxLengthUnmodified == 200

\* addresses of DataRef objects: those of the inputs mapping, those the upload
\* function hands out, and the object literal base64ToDataRef builds
InAddr(n) == <<"in", n>>
RemoteAddr(r) == <<"remote", r>>
NewAddr == <<"new", 0>>
NoAddr == <<"none", 0>>
Addrs == {InAddr(n) : n \in Names} \cup {RemoteAddr(r) : r \in RemoteIds} \cup {NewAddr}

\* the DataRef objects the upload function resolves with: it may hand the same
\* object to several calls, and an object may already carry the store's own hash.
\* The function is given the bytes alone, so what it hands out are objects of its
\* own, never those of the inputs mapping.
RemoteObject(r) ==
    [value |-> Str(<<107, 48 + r>>),
     type  |-> IF r % 2 = 1 THEN "hash" ELSE "url",
     hash  |-> IF r % 2 = 1 THEN ObjectHashSha1(Str(<<107, 48 + r>>)) ELSE Undefined]

----------------------------------------------------------------------------
(* The arguments the client may pass.                                      *)

\* strings around the threshold: x is 120, A is 65, Q is 81, / is 47, e-acute is 233
AtMax == ENV_VAR_DATA_ITEM_LENGTH_MAX
HttpColon == <<104, 116, 116, 112, 58>>

SampleRef(i) ==
    CASE i = 1 -> DataRef(Str(<<120>>), "utf8")
      [] i = 2 -> DataRef(Str(Rep(120, AtMax)), "utf8")
      [] i = 3 -> DataRef(Str(<<233>> \o Rep(120, AtMax)), "utf8")
      [] i = 4 -> DataRef(Str(Rep(65, AtMax + 1)), "base64")
      [] i = 5 -> DataRef(Str(Rep(65, AtMax + 4)), "base64")
      [] i = 6 -> DataRef(Str(Rep(120, AtMax - 2)), "json")
      [] i = 7 -> DataRef(Str(Rep(120, AtMax - 1)), "json")
      [] i = 8 -> DataRef(Str(Rep(120, AtMax + 1)), "hash")
      [] i = 9 -> DataRef(Str(HttpColon \o Rep(47, AtMax)), "url")
      [] i = 10 -> DataRef(Str(Rep(47, AtMax + 4)), "url")
      [] i = 11 -> DataRef(Str(Rep(65, AtMax + 4)), NoType)
      [] i = 12 -> DataRef(Obj(<<120>>), NoType)
      [] i = 13 -> DataRef(Obj(<<120>>), "json")
      [] i = 14 -> DataRef(Str(<<81, 81, 61, 61>>), "base64")
      [] OTHER -> DataRef(Str(<<>>), "hash")

\* the DataRefs of an inputs mapping, and those given to dataRefToBlob
SampleIds == 1 .. 12
BlobSampleIds == 1 .. 15

\* the arguments of base64ToDataRef: maxLengthUnmodified is a number or undefined
Num(k) == [t |-> "number", v |-> <<k>>]
SampleBase64Args ==
    [value : {Str(Rep(65, k)) : k \in {8, AtMax - 1, AtMax, AtMax + 4}},
     ignoreHash : BOOLEAN,
     maxLengthUnmodified : {Undefined, Num(8)}]

\* the inputs argument: undefined, or a mapping of some names to DataRefs
SampleInputs ==
    {[defined |-> FALSE, refs |-> <<>>]} \cup
    UNION {{[defined |-> TRUE, refs |-> f] : f \in [K -> SampleIds]} : K \in SUBSET Names}

----------------------------------------------------------------------------
(* copyLargeBlobsToRemote                                                  *)

\* the type the switch dispatches on
EffectiveType(ref) == IF ref.type = NoType THEN DataRefTypeDefault ELSE ref.type

\* case DataRefType.json
JsonBranch(ref) ==
    IF Truthy(ref.value)
       /\ Len(JsonStringify(ref.value)) > ENV_VAR_DATA_ITEM_LENGTH_MAX
    THEN Utf8ToBuffer(Str(JsonStringify(ref.value)))
    ELSE Undefined

\* Utf8Branch without its length test: every utf8 value is offloaded
Utf8BranchNoThreshold(ref) == Utf8ToBuffer(ref.value)

\* Utf8Branch with the threshold off by one
Utf8BranchOffByOne(ref) ==
    IF LengthExceeds(ref.value, ENV_VAR_DATA_ITEM_LENGTH_MAX + 1)
    THEN Utf8ToBuffer(ref.value)
    ELSE Undefined

\* case DataRefType.utf8
Utf8Branch(ref) ==
    IF LengthExceeds(ref.value, ENV_VAR_DATA_ITEM_LENGTH_MAX)
    THEN Utf8ToBuffer(ref.value)
    ELSE Undefined

\* case DataRefType.base64 and default
Base64Branch(ref) ==
    IF LengthExceeds(ref.value, ENV_VAR_DATA_ITEM_LENGTH_MAX)
    THEN Base64ToBuffer(ref.value)
    ELSE Undefined

\* the case of the switch that runs for a type
SwitchCase(type) ==
    IF type \in {"hash", "json", "utf8"} THEN type ELSE "base64"

\* uint8ArrayIfBig after the switch: bytes, undefined, or the decoder threw
Uint8ArrayIfBig(ref) ==
    LET c == SwitchCase(EffectiveType(ref))
    IN  IF c = "hash" THEN Undefined
        ELSE IF c = "json" THEN JsonBranch(ref)
        ELSE IF c = "utf8" THEN Utf8Branch(ref)
        ELSE Base64Branch(ref)

\* Dispatched starting one callback only, the rest left for later
DispatchedFirstOnly(keys) == {k \in keys : \A j \in keys : k <= j}

\* the names whose callback the map starts
Dispatched(keys) == keys

\* the callback of one name, run up to its first await
StartEntry(ref) ==
    LET big == Uint8ArrayIfBig(ref)
    IN  [branch |-> SwitchCase(EffectiveType(ref)),
         st     |-> IF big.t = "throw" THEN "threw"
                    ELSE IF Truthy(big) THEN "awaiting" ELSE "done",
         bytes  |-> big,
         hash   |-> IF Truthy(big) THEN ObjectHashSha1(big) ELSE Undefined,
         ref    |-> NoAddr]

NotStarted ==
    [branch |-> "none", st |-> "idle", bytes |-> Undefined, hash |-> Undefined,
     ref |-> NoAddr]

\* Install building a fresh map that holds the one name
InstallAlone(res, name, addr) == [n \in {name} |-> addr]

\* result[name] = ref
Install(res, name, addr) ==
    [n \in DOMAIN res \cup {name} |-> IF n = name THEN addr ELSE res[n]]

\* remoteRef.hash = hash
BrandHash(h, addr, hash) == [h EXCEPT ![addr].hash = hash]

\* the upload invocations of the callbacks, in the order of Object.keys
RECURSIVE UploadsFrom(_, _)
UploadsFrom(e, keys) ==
    IF keys = {} THEN <<>>
    ELSE LET n == CHOOSE k \in keys : \A j \in keys : k <= j
         IN  (IF e[n].st = "awaiting"
              THEN <<[name |-> n, value |-> e[n].bytes]>> ELSE <<>>)
             \o UploadsFrom(e, keys \ {n})

\* the names whose callback has installed its input DataRef before the first await
RECURSIVE InstallKept(_, _, _)
InstallKept(res, e, keys) ==
    IF keys = {} THEN res
    ELSE LET n == CHOOSE k \in keys : TRUE
         IN  InstallKept(IF e[n].st = "done" THEN Install(res, n, InAddr(n)) ELSE res,
                         e, keys \ {n})

\* AllFulfilled as Promise.allSettled would have it
AllSettled(keys, e) == \A n \in keys : e[n].st \in {"done", "rejected", "threw"}

\* Promise.all has every callback fulfilled
AllFulfilled(keys, e) == \A n \in keys : e[n].st = "done"

Pending == [st |-> "pending", reason |-> Undefined]
Rejected(reason) == [st |-> "rejected", reason |-> reason]

\* the failure of one upload call
UploadFailure(n) == Thrown(<<"upload", n>>)

CopyCall(inp) ==
    /\ op = "none"
    /\ op' = "copy"
    /\ inputs' = [defined |-> inp.defined,
                  refs |-> [n \in DOMAIN inp.refs |-> SampleRef(inp.refs[n])]]
    /\ UNCHANGED <<args, fetches, error>>
    /\ IF ~inp.defined
       THEN /\ status' = "returned"
            /\ returned' = Undefined
            /\ UNCHANGED <<heap, result, entry, calls, join>>
       ELSE LET keys == DOMAIN inp.refs
                threw == {n \in keys : entry'[n].st = "threw"}
            IN  /\ status' = "pending"
                /\ heap' = [a \in Addrs |->
                              IF \E n \in keys : a = InAddr(n)
                              THEN inputs'.refs[a[2]] ELSE heap[a]]
                /\ entry' = [n \in Names |->
                               IF n \in Dispatched(keys) THEN StartEntry(inputs'.refs[n])
                               ELSE NotStarted]
                /\ result' = InstallKept(<<>>, entry', keys)
                /\ calls' = UploadsFrom(entry', keys)
                /\ join' = IF threw = {} THEN Pending
                           ELSE Rejected(entry'[CHOOSE k \in threw :
                                                  \A j \in threw : k <= j].bytes)
                /\ UNCHANGED returned

\* an upload call resolves with the DataRef object r; the callback resumes
UploadResolve(n, r) ==
    /\ op = "copy"
    /\ entry[n].st = "awaiting"
    /\ heap' = BrandHash(heap, RemoteAddr(r), entry[n].hash)
    /\ result' = Install(result, n, RemoteAddr(r))
    /\ entry' = [entry EXCEPT ![n].st = "done", ![n].ref = RemoteAddr(r)]
    /\ UNCHANGED <<op, status, inputs, args, calls, fetches, join, returned, error>>

\* an upload call fails; the callback's promise and Promise.all reject
UploadReject(n) ==
    /\ op = "copy"
    /\ entry[n].st = "awaiting"
    /\ entry' = [entry EXCEPT ![n].st = "rejected"]
    /\ join' = IF join.st = "pending" THEN Rejected(UploadFailure(n)) ELSE join
    /\ UNCHANGED <<op, status, heap, inputs, result, args, calls, fetches, returned,
                   error>>

\* await Promise.all(...) resumes and the function returns result
CopyReturn ==
    /\ op = "copy"
    /\ status = "pending"
    /\ AllFulfilled(DOMAIN inputs.refs, entry)
    /\ status' = "returned"
    /\ returned' = [t |-> "map", v |-> result]
    /\ UNCHANGED <<op, heap, inputs, result, entry, args, calls, fetches, join, error>>

\* await Promise.all(...) throws
CopyThrow ==
    /\ op = "copy"
    /\ status = "pending"
    /\ join.st = "rejected"
    /\ status' = "rejected"
    /\ error' = join.reason
    /\ UNCHANGED <<op, heap, inputs, result, entry, args, calls, fetches, join,
                   returned>>

----------------------------------------------------------------------------
(* base64ToDataRef                                                         *)

\* the destructuring default of maxLengthUnmodified
MaxLengthUnmodified(options) ==
    IF options.maxLengthUnmodified = Undefined THEN DefaultMaxLengthUnmodified
    ELSE options.maxLengthUnmodified.v[1]

\* value.length < maxLengthUnmodified: the value is kept inline
KeptInline(value, options) == Length(value) < MaxLengthUnmodified(options)

\* the hash field base64ToDataRef puts on its result
Base64Hash(value, options, old) ==
    IF options.ignoreHash THEN old ELSE ObjectHashSha1(value)

Base64Call(a) ==
    /\ op = "none"
    /\ op' = "base64"
    /\ args' = a
    /\ UNCHANGED <<inputs, result, entry, fetches, join, error>>
    /\ IF KeptInline(a.value, a)
       THEN /\ heap' = [heap EXCEPT ![NewAddr] =
                           [value |-> a.value, type |-> "base64",
                            hash |-> Base64Hash(a.value, a, Undefined)]]
            /\ status' = "returned"
            /\ returned' = [t |-> "ref", v |-> NewAddr]
            /\ UNCHANGED calls
       ELSE /\ calls' = Append(calls, [name |-> 0, value |-> a.value])
            /\ status' = "pending"
            /\ UNCHANGED <<heap, returned>>

\* the upload call resolves with the DataRef object r
Base64UploadResolve(r) ==
    /\ op = "base64"
    /\ status = "pending"
    /\ heap' = BrandHash(heap, RemoteAddr(r),
                         Base64Hash(args.value, args, heap[RemoteAddr(r)].hash))
    /\ status' = "returned"
    /\ returned' = [t |-> "ref", v |-> RemoteAddr(r)]
    /\ UNCHANGED <<op, inputs, result, entry, args, calls, fetches, join, error>>

\* the upload call fails
Base64UploadReject ==
    /\ op = "base64"
    /\ status = "pending"
    /\ status' = "rejected"
    /\ error' = UploadFailure(0)
    /\ UNCHANGED <<op, heap, inputs, result, entry, args, calls, fetches, join,
                   returned>>

----------------------------------------------------------------------------
(* dataRefToBlob                                                           *)

\* the type the switch of dataRefToBlob dispatches on
BlobEffectiveType(ref) == IF ref.type = NoType THEN DataRefTypeDefault ELSE ref.type

\* BlobSwitchCase without the case for hash
BlobSwitchCaseNoHash(type) ==
    IF type \in {"json", "utf8", "url"} THEN type ELSE "base64"

\* the case of the switch that runs for a type
BlobSwitchCase(type) ==
    IF type \in {"hash", "json", "utf8", "url"} THEN type ELSE "base64"

Blob(bytes) == [t |-> "blob", v |-> bytes.v]
CannotCreateBlob == Thrown("Cannot crate blob from type=hash")

\* what the switch produces without suspending: a buffer, or something thrown
BlobBuffer(ref, c) ==
    IF c = "hash" THEN CannotCreateBlob
    ELSE IF c = "json" THEN Utf8ToBuffer(Str(JsonStringify(ref.value)))
    ELSE IF c = "utf8" THEN Utf8ToBuffer(ref.value)
    ELSE Base64ToBuffer(ref.value)

BlobCall(ref) ==
    LET c == BlobSwitchCase(BlobEffectiveType(ref))
    IN  /\ op = "none"
        /\ op' = "blob"
        /\ args' = [ref |-> ref, branch |-> c]
        /\ UNCHANGED <<heap, inputs, result, entry, calls, join>>
        /\ IF c = "url"
           THEN /\ fetches' = Append(fetches, ref.value)
                /\ status' = "pending"
                /\ UNCHANGED <<returned, error>>
           ELSE LET buffer == BlobBuffer(ref, c)
                IN  /\ UNCHANGED fetches
                    /\ IF buffer.t = "throw"
                       THEN /\ status' = "rejected"
                            /\ error' = buffer
                            /\ UNCHANGED returned
                       ELSE /\ status' = "returned"
                            /\ returned' = Blob(buffer)
                            /\ UNCHANGED error

\* fetchBlobFromUrl resolves with the response body
FetchResolve(body) ==
    /\ op = "blob"
    /\ status = "pending"
    /\ status' = "returned"
    /\ returned' = Blob(Bytes(body))
    /\ UNCHANGED <<op, heap, inputs, result, entry, args, calls, fetches, join, error>>

\* fetchBlobFromUrl fails
FetchReject ==
    /\ op = "blob"
    /\ status = "pending"
    /\ status' = "rejected"
    /\ error' = Thrown("fetch")
    /\ UNCHANGED <<op, heap, inputs, result, entry, args, calls, fetches, join,
                   returned>>

----------------------------------------------------------------------------
Init ==
    /\ op = "none"
    /\ status = "idle"
    /\ heap = [a \in Addrs |-> IF a[1] = "remote" THEN RemoteObject(a[2])
                               ELSE Unallocated]
    /\ inputs = [defined |-> FALSE, refs |-> <<>>]
    /\ result = <<>>
    /\ entry = [n \in Names |-> NotStarted]
    /\ args = Undefined
    /\ calls = <<>>
    /\ fetches = <<>>
    /\ join = Pending
    /\ returned = Undefined
    /\ error = Undefined

Next ==
    \/ \E inp \in SampleInputs : CopyCall(inp)
    \/ \E n \in Names, r \in RemoteIds : UploadResolve(n, r)
    \/ \E n \in Names : UploadReject(n)
    \/ CopyReturn
    \/ CopyThrow
    \/ \E a \in SampleBase64Args : Base64Call(a)
    \/ \E r \in RemoteIds : Base64UploadResolve(r)
    \/ Base64UploadReject
    \/ \E i \in BlobSampleIds : BlobCall(SampleRef(i))
    \/ \E body \in {<<>>, <<7>>} : FetchResolve(body)
    \/ FetchReject

Spec == Init /\ [][Next]_vars

\* the continuation of a settled await is run by the microtask queue
FairSpec == Spec /\ WF_vars(CopyThrow) /\ WF_vars(CopyReturn)

----------------------------------------------------------------------------
(* Notions the properties are stated in.                                   *)

Keys == DOMAIN inputs.refs

\* how often upload was invoked for the entry of a name
UploadCount(n) == Cardinality({i \in 1 .. Len(calls) : calls[i].name = n})

\* the effective type as the data model documents it
DocumentedType(ref) ==
    IF ref.type # NoType THEN ref.type
    ELSE IF ref.value.t = "object" THEN "json" ELSE "base64"

\* a DataRef that carries its payload inline
Inline(ref) == DocumentedType(ref) \in {"base64", "utf8", "json"}

\* the length the threshold is compared with
PayloadLength(ref) ==
    IF DocumentedType(ref) = "json" THEN Len(JsonStringify(ref.value))
    ELSE Length(ref.value)

\* the threshold of a base64ToDataRef call
Base64Threshold ==
    IF args.maxLengthUnmodified = Undefined THEN 200 ELSE args.maxLengthUnmodified.v[1]

\* the entry of a name has been replaced by what its upload returned
Offloaded(n) == entry[n].st = "done" /\ entry[n].ref # NoAddr

----------------------------------------------------------------------------
(* C1: copyLargeBlobsToRemote of an absent mapping resolves with undefined  *)
(* and never invokes upload; of a present mapping, whenever it returns, the *)
(* returned mapping has exactly the names of the input mapping.             *)
C1_KeySetPreserved ==
    op = "copy" =>
      /\ ~inputs.defined =>
            calls = <<>> /\ status = "returned" /\ returned = Undefined
      /\ inputs.defined /\ status = "returned" =>
            returned.t = "map" /\ DOMAIN returned.v = Keys

C1_Witness ==
    /\ op = "copy" /\ inputs.defined /\ status = "returned"
    /\ Keys = Names
    /\ \E n \in Keys : Offloaded(n)
    /\ \E n \in Keys : ~Offloaded(n)

(* C2: an inline payload below the size threshold never causes an upload:   *)
(* copyLargeBlobsToRemote installs the very input DataRef under its name    *)
(* with no field changed, and base64ToDataRef returns the value unchanged   *)
(* with type base64.                                                        *)
C2_BelowThresholdUntouched ==
    /\ op = "copy" /\ inputs.defined =>
         \A n \in Keys :
            (Inline(inputs.refs[n])
             /\ PayloadLength(inputs.refs[n]) < ENV_VAR_DATA_ITEM_LENGTH_MAX) =>
               /\ UploadCount(n) = 0
               /\ n \in DOMAIN result /\ result[n] = InAddr(n)
               /\ heap[InAddr(n)] = inputs.refs[n]
               /\ status = "returned" => returned.v[n] = InAddr(n)
    /\ op = "base64" /\ Length(args.value) < Base64Threshold =>
         /\ calls = <<>>
         /\ status = "returned" /\ returned = [t |-> "ref", v |-> NewAddr]
         /\ heap[NewAddr].value = args.value
         /\ heap[NewAddr].type = "base64"

C2_Witness ==
    /\ op = "copy" /\ inputs.defined /\ status = "returned"
    /\ \E n \in Keys : /\ Inline(inputs.refs[n])
                       /\ PayloadLength(inputs.refs[n]) < ENV_VAR_DATA_ITEM_LENGTH_MAX
                       /\ returned.v[n] = InAddr(n)
    /\ \E n \in Keys : Offloaded(n)

(* C3 as stated: an inline payload at or above the threshold is uploaded    *)
(* exactly once in every call that returns, and never more than once.       *)
C3_AtOrAboveUploadedOnce ==
    /\ op = "copy" /\ inputs.defined =>
         \A n \in Keys :
            (Inline(inputs.refs[n])
             /\ PayloadLength(inputs.refs[n]) >= ENV_VAR_DATA_ITEM_LENGTH_MAX) =>
               /\ UploadCount(n) <= 1
               /\ status = "returned" => UploadCount(n) = 1
    /\ op = "base64" /\ Length(args.value) >= Base64Threshold =>
         /\ Len(calls) <= 1
         /\ status = "returned" => Len(calls) = 1

\* an entry whose type field is base64, utf8 or json, or is absent with a string value
InlineString(ref) ==
    \/ ref.type \in {"base64", "utf8", "json"}
    \/ ref.type = NoType /\ ref.value.t = "string"

(* C3 amended: copyLargeBlobsToRemote uploads exactly once, in every call    *)
(* that returns, an inline payload strictly longer than 200; base64ToDataRef *)
(* one at or above maxLengthUnmodified; neither ever more than once.         *)
C3_AboveUploadedOnce ==
    /\ op = "copy" /\ inputs.defined =>
         \A n \in Keys :
            (InlineString(inputs.refs[n])
             /\ PayloadLength(inputs.refs[n]) > ENV_VAR_DATA_ITEM_LENGTH_MAX) =>
               /\ UploadCount(n) <= 1
               /\ status = "returned" => UploadCount(n) = 1
    /\ op = "base64" /\ Length(args.value) >= Base64Threshold =>
         /\ Len(calls) <= 1
         /\ status = "returned" => Len(calls) = 1

C3_Witness ==
    /\ op = "copy" /\ inputs.defined /\ status = "returned"
    /\ \E n \in Keys : /\ inputs.refs[n].type = "utf8"
                       /\ PayloadLength(inputs.refs[n]) = ENV_VAR_DATA_ITEM_LENGTH_MAX + 1
                       /\ UploadCount(n) = 1
                       /\ Offloaded(n)

(* C4: when copyLargeBlobsToRemote returns, every offloaded entry of the     *)
(* returned mapping is the reference its own upload call resolved with, and  *)
(* the hash of that reference is the digest computed over that entry's own   *)
(* bytes, whatever objects the upload function hands out.                    *)
C4_OwnReferenceOwnHash ==
    op = "copy" /\ inputs.defined /\ status = "returned" =>
       \A n \in Keys :
          Offloaded(n) =>
             /\ returned.v[n] = entry[n].ref
             /\ heap[returned.v[n]].hash = ObjectHashSha1(entry[n].bytes)

(* C5: a DataRef without a type field is processed by the json branch when   *)
(* its value is a non-string object and by the base64 branch otherwise, in   *)
(* copyLargeBlobsToRemote and in dataRefToBlob.                              *)
C5_AbsentTypeResolution ==
    /\ op = "copy" /\ inputs.defined =>
         \A n \in Keys :
            inputs.refs[n].type = NoType =>
               entry[n].branch = DocumentedType(inputs.refs[n])
    /\ op = "blob" /\ args.ref.type = NoType =>
         args.branch = DocumentedType(args.ref)

\* some callback of the batch has failed
SomeEntryFailed == \E n \in Keys : entry[n].st \in {"rejected", "threw"}
\* the failures of the callbacks that have failed
EntryFailures ==
    {UploadFailure(n) : n \in {k \in Keys : entry[k].st = "rejected"}}
    \cup {entry[n].bytes : n \in {k \in Keys : entry[k].st = "threw"}}

(* C6: copyLargeBlobsToRemote is all-or-nothing: once the upload of any one  *)
(* entry has failed the call never returns a mapping, whatever the other     *)
(* entries do; the call fails, and it fails with the failure of an entry     *)
(* that failed (the first of them).                                          *)
C6_AllOrNothing ==
    /\ [](op = "copy" /\ SomeEntryFailed =>
            /\ status # "returned"
            /\ returned = Undefined
            /\ status = "rejected" => error = join.reason /\ error \in EntryFailures)
    /\ [](op = "copy" /\ status = "rejected" => SomeEntryFailed)
    /\ (op = "copy" /\ SomeEntryFailed ~> status = "rejected")

C6_Witness ==
    /\ op = "copy" /\ status = "rejected"
    /\ \E n \in Keys : entry[n].st = "rejected" /\ error = UploadFailure(n)
    /\ \E n \in Keys : Offloaded(n)

\* the entry of a name needs an upload
NeedsUpload(ref) ==
    LET big == Uint8ArrayIfBig(ref) IN big.t # "throw" /\ Truthy(big)

(* C7: copyLargeBlobsToRemote does not serialize uploads: upload is invoked  *)
(* only while no upload has settled, and the step that invokes it invokes it *)
(* for every entry that needs one; the call returns only when every entry    *)
(* has settled and every name is installed.                                  *)
C7_NotSerialized ==
    /\ [][(op' = "copy" /\ calls' # calls) =>
             /\ \A n \in Names : entry[n].st = "idle"
             /\ \A n \in DOMAIN inputs'.refs :
                   NeedsUpload(inputs'.refs[n]) =>
                      \E i \in 1 .. Len(calls') : calls'[i].name = n]_vars
    /\ [](op = "copy" /\ inputs.defined /\ status = "returned" =>
             \A n \in Keys : /\ entry[n].st = "done"
                             /\ n \in DOMAIN returned.v)

C7_Witness ==
    /\ op = "copy" /\ status = "pending"
    /\ Len(calls) = Cardinality(Names)
    /\ \A n \in Names : entry[n].st = "awaiting"

(* C8: dataRefToBlob of a DataRef of type hash always fails with the         *)
(* cannot-convert error: it returns no blob and performs no fetch.           *)
C8_HashNeverConverts ==
    op = "blob" /\ args.ref.type = "hash" =>
       /\ status = "rejected"
       /\ error = CannotCreateBlob
       /\ returned = Undefined
       /\ fetches = <<>>

C8_Witness ==
    /\ op = "blob" /\ args.ref.type = "hash" /\ status = "rejected"
    /\ Length(args.ref.value) > ENV_VAR_DATA_ITEM_LENGTH_MAX

(* C9: the hash is the digest of the original, unencoded bytes at both       *)
(* offload sites: on an entry of type base64 that copyLargeBlobsToRemote     *)
(* offloads, and on the result of base64ToDataRef with ignoreHash false.     *)
C9_SameDigestAtBothSites ==
    /\ op = "copy" /\ inputs.defined /\ status = "returned" =>
         \A n \in Keys :
            (inputs.refs[n].type = "base64" /\ Offloaded(n) /\ Keys = {n}) =>
               heap[returned.v[n]].hash
                  = ObjectHashSha1(Base64ToBuffer(inputs.refs[n].value))
    /\ op = "base64" /\ status = "returned" /\ ~args.ignoreHash =>
         heap[returned.v].hash = ObjectHashSha1(Base64ToBuffer(args.value))

(* C10: an entry of type hash or url is never offloaded by                   *)
(* copyLargeBlobsToRemote: it causes no upload call and the very input       *)
(* DataRef is installed under its name, whatever the length of its value.    *)
C10_RemoteReferencesPassThrough ==
    op = "copy" /\ inputs.defined =>
       \A n \in Keys :
          inputs.refs[n].type \in {"hash", "url"} =>
             /\ UploadCount(n) = 0
             /\ n \in DOMAIN result /\ result[n] = InAddr(n)
             /\ heap[InAddr(n)] = inputs.refs[n]
====
